---- MODULE Spec2Model ----
(***************************************************************************)
(* The .slf archive codec of sulfur: pack (src/src/pack.rs) writes the     *)
(* header, one metadata block and one gzip payload per source file, then   *)
(* backpatches sizes and checksums and appends the index array; unpack     *)
(* (src/src/unpack.rs) validates the header and streams every entry back   *)
(* to disk, comparing checksums and sizes.                                 *)
(*                                                                         *)
(* Bytes are the integers 0..255, a file is a sequence of bytes, a path is *)
(* a record [abs, comps] whose components are byte strings.                *)
(***************************************************************************)
EXTENDS Integers, Sequences, FiniteSets, TLC

\* ---------------------------------------------------------------- bounds
\* largest number of files the source directory of a scenario holds
MaxFiles == 2
\* largest number of bytes a source file of a scenario holds
MaxLen == 2
\* number of bytes the archive file accepts of a write it cuts short
MaxShort == 1
\* largest number of files of a source directory that is its own target
MaxInside == 1

\* ------------------------------------------------------ program constants
\* main.rs:34  const SIGNATURE: &[u8] = b".slf"
SIGNATURE == <<46, 115, 108, 102>>
\* main.rs:35  const BUFFER_SIZE: usize = 64 * 1024, scaled down so that a
\* name longer than the buffer and a payload of several chunks fit the model,
\* and not below the length of the archive's own file name
BUFFER_SIZE == 5
\* crate::VERSION, a [major, minor] byte pair (pack.rs:36, unpack.rs:64)
VERSION == <<1, 0>>

\* ------------------------------------------------------------ characters
\* std::path: the separator `/`, the components `.` and `..`
SEP == 47
DOT == 46
DOTDOT == <<DOT, DOT>>

\* ------------------------------------------------ little-endian integers
\* u32::to_le_bytes / u64::to_le_bytes: the w low bytes of n, low byte first
RECURSIVE to_le_bytes(_, _)
to_le_bytes(n, w) ==
    IF w = 0 THEN <<>> ELSE <<n % 256>> \o to_le_bytes(n \div 256, w - 1)

\* u32::from_le_bytes / u64::from_le_bytes.  Every value of 2^24 and more is
\* represented by HUGE: no length, position or checksum of the model comes
\* near it, so such a value only ever compares as different and larger.
HUGE == 16777216
from_le_bytes(bs) ==
    IF \E k \in 4..Len(bs) : bs[k] # 0 THEN HUGE
    ELSE (IF Len(bs) >= 1 THEN bs[1] ELSE 0)
           + (IF Len(bs) >= 2 THEN 256 * bs[2] ELSE 0)
           + (IF Len(bs) >= 3 THEN 65536 * bs[3] ELSE 0)

\* the bytes of file f at positions pos .. pos+n-1 (zero-based pos); fewer
\* when the file ends before
Slice(f, pos, n) ==
    LET last == IF pos + n > Len(f) THEN Len(f) ELSE pos + n
    IN  IF pos >= last THEN <<>> ELSE SubSeq(f, pos + 1, last)

\* write bs at zero-based position pos of file f, overwriting or extending
WriteAt(f, pos, bs) ==
    LET newLen == IF pos + Len(bs) > Len(f) THEN pos + Len(bs) ELSE Len(f)
    IN  [k \in 1..newLen |->
            IF k > pos /\ k <= pos + Len(bs) THEN bs[k - pos] ELSE f[k]]

\* --------------------------------------------------------------- checksum
\* flate2::Crc: a rolling checksum stored in 32 bits.  The crate's CRC-32 is
\* replaced by the polynomial hash h -> 31 * h + byte + 1 modulo the prime
\* CRC_MOD, which has the property the codec relies on: changing one byte of
\* the input changes the sum.  The hash of a sequence is computed from the
\* hashes of its halves, which gives the value of the byte-by-byte update.
CRC_MOD == 32749

\* 31^n modulo CRC_MOD
RECURSIVE CrcShift(_)
CrcShift(n) ==
    IF n = 0 THEN 1
    ELSE IF n % 2 = 1 THEN (31 * CrcShift(n - 1)) % CRC_MOD
    ELSE (CrcShift(n \div 2) * CrcShift(n \div 2)) % CRC_MOD

\* the sum of a fresh Crc updated with bs
RECURSIVE CrcFresh(_)
CrcFresh(bs) ==
    IF bs = <<>> THEN 0
    ELSE IF Len(bs) = 1 THEN (bs[1] + 1) % CRC_MOD
    ELSE LET half  == Len(bs) \div 2
             right == SubSeq(bs, half + 1, Len(bs))
         IN  (CrcFresh(SubSeq(bs, 1, half)) * CrcShift(Len(right))
                  + CrcFresh(right)) % CRC_MOD

\* Crc::update: the sum h after the bytes bs
CrcUpdate(h, bs) == (h * CrcShift(Len(bs)) + CrcFresh(bs)) % CRC_MOD

CrcOf(bs) == CrcUpdate(0, bs)

\* ------------------------------------------------------------ gzip stream
\* flate2 GzEncoder / GzDecoder, reduced to the structure of a gzip member
\* holding one stored block: ID1 ID2 OS | LEN data | CRC(4) ISIZE(4).
\* The decoder checks ID1 and ID2, ignores OS, and verifies CRC and ISIZE.
GZ_ID1 == 31
GZ_ID2 == 139
GZ_OS == 255
GzHeaderLen == 3
GzTrailerLen == 8

GzEncode(data) ==
    <<GZ_ID1, GZ_ID2, GZ_OS>> \o <<Len(data)>> \o data
        \o to_le_bytes(CrcOf(data), 4) \o to_le_bytes(Len(data), 4)

\* the decoder's view of the bytes fed so far
GzBadHeader(fed) ==
    \/ Len(fed) >= 1 /\ fed[1] # GZ_ID1
    \/ Len(fed) >= 2 /\ fed[2] # GZ_ID2

GzBodyLen(fed) == IF Len(fed) >= GzHeaderLen + 1 THEN fed[GzHeaderLen + 1] ELSE 0

\* bytes the decoder has emitted to its sink after being fed `fed`
GzEmitted(fed) ==
    IF GzBadHeader(fed) \/ Len(fed) <= GzHeaderLen + 1 THEN <<>>
    ELSE Slice(fed, GzHeaderLen + 1, GzBodyLen(fed))

\* total length of the member that starts in fed, once LEN is known
GzMemberLen(fed) == GzHeaderLen + 1 + GzBodyLen(fed) + GzTrailerLen

\* write_all fails as soon as the header is seen to be wrong or bytes follow
\* the end of the member
GzWriteFails(fed) ==
    \/ GzBadHeader(fed)
    \/ Len(fed) >= GzHeaderLen + 1 /\ Len(fed) > GzMemberLen(fed)

\* finish fails on a truncated member or a trailer that does not match
GzFinishFails(fed) ==
    \/ GzWriteFails(fed)
    \/ Len(fed) < GzHeaderLen + 1
    \/ Len(fed) # GzMemberLen(fed)
    \/ LET data == GzEmitted(fed)
           tr   == Slice(fed, GzHeaderLen + 1 + GzBodyLen(fed), GzTrailerLen)
       IN  \/ from_le_bytes(SubSeq(tr, 1, 4)) # CrcOf(data)
           \/ from_le_bytes(SubSeq(tr, 5, 8)) # Len(data)

\* ------------------------------------------------------------------ paths
RECURSIVE SplitSep(_, _, _)
SplitSep(s, cur, acc) ==
    IF s = <<>> THEN (IF cur = <<>> THEN acc ELSE Append(acc, cur))
    ELSE IF Head(s) = SEP
         THEN SplitSep(Tail(s), <<>>, IF cur = <<>> THEN acc ELSE Append(acc, cur))
         ELSE SplitSep(Tail(s), Append(cur, Head(s)), acc)

\* PathBuf::from(bytes): a leading separator is the root, empty and `.`
\* components vanish (std::path::Components)
PathFrom(bs) ==
    [abs   |-> bs # <<>> /\ bs[1] = SEP,
     comps |-> SelectSeq(SplitSep(bs, <<>>, <<>>), LAMBDA c : c # <<DOT>>)]

\* Path::join: an absolute right-hand side replaces the left-hand side
Join(p, q) ==
    IF q.abs THEN q ELSE [abs |-> p.abs, comps |-> p.comps \o q.comps]

\* Path::parent: None for the root and for the empty path
HasParent(p) == p.comps # <<>>
Parent(p) == [abs |-> p.abs, comps |-> SubSeq(p.comps, 1, Len(p.comps) - 1)]

\* crate::normalize_path: lexical clean-up, left to right; `..` pops the last
\* pushed ordinary name, is dropped at the root, and is pushed otherwise
RECURSIVE NormalizeComps(_, _, _)
NormalizeComps(abs, todo, st) ==
    IF todo = <<>> THEN st
    ELSE LET c == Head(todo)
         IN  IF c # DOTDOT THEN NormalizeComps(abs, Tail(todo), Append(st, c))
             ELSE IF st # <<>> /\ st[Len(st)] # DOTDOT
                  THEN NormalizeComps(abs, Tail(todo), SubSeq(st, 1, Len(st) - 1))
                  ELSE IF abs /\ st = <<>>
                       THEN NormalizeComps(abs, Tail(todo), st)
                       ELSE NormalizeComps(abs, Tail(todo), Append(st, c))

normalize_path(p) == [abs |-> p.abs, comps |-> NormalizeComps(p.abs, p.comps, <<>>)]

\* Path::strip_prefix: the components of p after those of root
IsPrefix(root, p) ==
    /\ root.abs = p.abs
    /\ Len(root.comps) <= Len(p.comps)
    /\ SubSeq(p.comps, 1, Len(root.comps)) = root.comps

strip_prefix(p, root) ==
    [abs |-> FALSE, comps |-> SubSeq(p.comps, Len(root.comps) + 1, Len(p.comps))]

\* Path::as_os_str of a relative path: the components joined by `/`
RECURSIVE JoinSep(_)
JoinSep(cs) ==
    IF cs = <<>> THEN <<>>
    ELSE IF Len(cs) = 1 THEN cs[1]
    ELSE cs[1] \o <<SEP>> \o JoinSep(Tail(cs))

as_os_str(p) == (IF p.abs THEN <<SEP>> ELSE <<>>) \o JoinSep(p.comps)

\* Path::file_name: the last component, unless it is `..`
HasFileName(p) == p.comps # <<>> /\ p.comps[Len(p.comps)] # DOTDOT
file_name(p) == p.comps[Len(p.comps)]

\* index of the last `.` of a file name, 0 when there is none; a name that
\* only starts with a dot has no extension
LastDot(c) ==
    LET ds == {k \in 2..Len(c) : c[k] = DOT}
    IN  IF ds = {} THEN 0 ELSE CHOOSE k \in ds : \A j \in ds : j <= k

\* Path::file_stem and Path::extension
file_stem(p) ==
    LET c == file_name(p)
    IN  IF LastDot(c) = 0 THEN c ELSE SubSeq(c, 1, LastDot(c) - 1)

extension(p) ==
    LET c == file_name(p)
    IN  IF LastDot(c) = 0 THEN <<>> ELSE SubSeq(c, LastDot(c) + 1, Len(c))

\* Path::with_extension
with_extension(p, ext) ==
    [p EXCEPT !.comps[Len(p.comps)] = file_stem(p) \o <<DOT>> \o ext]

SLF == <<115, 108, 102>>

\* the operating system's resolution of a path handed to File::create or
\* create_dir_all: relative paths start at the working directory, `..`
\* steps up and stays at the root
RECURSIVE ResolveComps(_, _)
ResolveComps(st, todo) ==
    IF todo = <<>> THEN st
    ELSE IF Head(todo) = DOTDOT
         THEN ResolveComps(IF st = <<>> THEN st ELSE SubSeq(st, 1, Len(st) - 1),
                           Tail(todo))
         ELSE ResolveComps(Append(st, Head(todo)), Tail(todo))

\* ------------------------------------------------------------ the scenario
\* directories of the file system the scenarios run in
CWD == <<<<119>>>>
PACKDIR == <<<<112>>>>
DEST == <<<<100>>>>
\* name of the source directory of a directory scenario
SRCNAME == <<115>>

Resolve(p) == ResolveComps(IF p.abs THEN <<>> ELSE CWD, p.comps)

AbsPath(cs) == [abs |-> TRUE, comps |-> cs]

\* relative names of source files: `a`, `s/b` and one longer than BUFFER_SIZE
NameA == <<97>>
NameSB == <<115, SEP, 98>>
NameLong == [k \in 1..(BUFFER_SIZE + 2) |-> 97]
Names == {NameA, NameSB, NameLong}

\* file contents: 0..MaxLen bytes, all different
Content(n) == [k \in 1..n |-> 6 + k]
Contents == {Content(n) : n \in 0..MaxLen}

\* what a source file does to the pack that meets it
Faults == {"none", "walk", "open"}

SourceEntries == [name : Names, data : Contents, fault : Faults]

DistinctNames(es) == \A i, j \in DOMAIN es : i # j => es[i].name # es[j].name
FaultCount(es) == Cardinality({i \in DOMAIN es : es[i].fault # "none"})

DirEntries ==
    UNION {{es \in [1..k -> SourceEntries] :
                DistinctNames(es) /\ FaultCount(es) <= 1} : k \in 0..MaxFiles}

\* the target handed to pack: none, which stands for the parent of the
\* source, or the source directory itself
Targets == {"parent", "source"}

\* the archive file of the scenario takes every write whole, or takes only
\* the first MaxShort bytes of a write of the payload
Sinks == {"whole", "short"}

\* a scenario departs from the plain one in at most one way: a source file
\* that fails, a target inside the source, or an archive file that cuts writes
Sources ==
    {s \in [kind : {"dir"}, entries : DirEntries, target : Targets,
            sink : Sinks] :
        /\ s.target = "source" =>
              /\ FaultCount(s.entries) = 0
              /\ s.sink = "whole"
              /\ Len(s.entries) <= MaxInside
        /\ s.sink = "short" => FaultCount(s.entries) = 0}
      \cup {[kind |-> "file", entries |-> <<e>>, target |-> "parent",
             sink |-> "whole"] :
                e \in {x \in SourceEntries : x.fault # "walk"}}
      \cup {[kind |-> "file", entries |-> <<e>>, target |-> "parent",
             sink |-> "short"] :
                e \in {x \in SourceEntries : x.fault = "none"}}
      \cup {[kind |-> "missing", entries |-> <<>>, target |-> "parent",
             sink |-> "whole"]}

\* the path of the source handed to pack
SourcePath(src) ==
    IF src.kind = "file"
    THEN Join(AbsPath(PACKDIR), PathFrom(src.entries[1].name))
    ELSE AbsPath(Append(PACKDIR, SRCNAME))

\* the path of the k-th source file
EntryPath(src, k) ==
    IF src.kind = "file" THEN SourcePath(src)
    ELSE Join(SourcePath(src), PathFrom(src.entries[k].name))

\* ------------------------------------------------------------------ state
VARIABLES
    pc,                 \* position of the run: pack, then tamper, then unpack
    source,             \* the source handed to pack
    archive,            \* bytes of the archive file
    files,              \* pack: indices of the enumerated source files
    inners,             \* pack: Vec<InnerFile>
    temp_offsets,       \* pack: position of each entry's backpatched fields
    compressed_sizes,   \* pack: payload length of each entry
    checksums,          \* pack: (original, compressed) checksum of each entry
    raw_read,           \* pack: the raw bytes read of each entry
    short_writes,       \* pack: writes of which the archive file took a part
    packResult,         \* "none" while running, "Ok" or the error kind
    origin,             \* who made the archive: "pack", "tampered", "forged"
    tamper_pos,         \* index of the byte Tamper replaced, 0 for none
    rpos,               \* unpack: position of the reader in the archive
    file_count,         \* unpack: entry count read from the header
    dir_path,           \* unpack: directory the entries are joined to
    done_count,         \* unpack: entries extracted and verified
    inner_file,         \* unpack: metadata of the entry being extracted
    out_path,           \* unpack: resolved path of the file being written
    remaining_bytes,    \* unpack: byte budget of the streaming loop
    fed,                \* unpack: bytes written into the decoder
    compressed_checksum, \* unpack: checksum accumulator of the bytes read
    disk,               \* files created by unpack: resolved path -> content
    dirs,               \* directories created by unpack (resolved paths)
    unpackResult        \* "none" while running, "Ok" or the error kind

vars == <<pc, source, archive, files, inners, temp_offsets, compressed_sizes,
          checksums, raw_read, short_writes, packResult, origin, tamper_pos, rpos, file_count, dir_path,
          done_count, inner_file, out_path, remaining_bytes, fed,
          compressed_checksum, disk, dirs, unpackResult>>

packVars == <<files, inners, temp_offsets, compressed_sizes, checksums,
              raw_read, short_writes>>
unpackVars == <<rpos, file_count, dir_path, done_count, inner_file, out_path,
                remaining_bytes, fed, compressed_checksum, disk, dirs,
                unpackResult>>

NoInner == [name |-> <<>>, original_size |-> 0, compressed_size |-> 0,
            original_checksum |-> 0, compressed_checksum |-> 0]
EmptyPath == [abs |-> FALSE, comps |-> <<>>]

Init ==
    /\ pc = "start"
    /\ source \in Sources
    /\ archive = <<>>
    /\ files = <<>>
    /\ inners = <<>>
    /\ temp_offsets = <<>>
    /\ compressed_sizes = <<>>
    /\ checksums = <<>>
    /\ raw_read = <<>>
    /\ short_writes = 0
    /\ packResult = "none"
    /\ origin = "pack"
    /\ tamper_pos = 0
    /\ rpos = 0
    /\ file_count = 0
    /\ dir_path = EmptyPath
    /\ done_count = 0
    /\ inner_file = NoInner
    /\ out_path = <<>>
    /\ remaining_bytes = 0
    /\ fed = <<>>
    /\ compressed_checksum = 0
    /\ disk = <<>>
    /\ dirs = {}
    /\ unpackResult = "none"

\* ------------------------------------------------------------------- pack
\* pack.rs:18-23 the target defaults to the parent of the source
PackTarget(src) ==
    IF src.target = "source" THEN SourcePath(src) ELSE Parent(SourcePath(src))

\* pack.rs:73-85
get_archive_name(src) ==
    IF src.kind = "file" THEN file_stem(SourcePath(src))
    ELSE file_name(SourcePath(src))

\* pack.rs:55-71 (the Ok branch; a missing source is the Err branch)
get_archive_path(src, target) ==
    LET t == normalize_path(target)
    IN  IF HasFileName(t) /\ extension(t) = SLF THEN t
        ELSE with_extension(
                 Join(t, [abs |-> FALSE, comps |-> <<get_archive_name(src)>>]),
                 SLF)

\* pack.rs:30 the file File::create has made by the time of the walk
created_archive(src) == get_archive_path(src, PackTarget(src))

\* the walk of pack.rs:91 meets the created archive when it lies under the
\* source directory
archive_in_source(src) ==
    src.kind = "dir" /\ IsPrefix(SourcePath(src), created_archive(src))

\* pack.rs:93 filter_map(|e| e.ok()): the entries the walk could read
walk_kept(src) ==
    SelectSeq([k \in 1..Len(src.entries) |-> k],
              LAMBDA k : src.entries[k].fault # "walk")

\* places the walk can list the created archive at: the order of a
\* directory listing is not fixed
WalkPlaces(src) == IF archive_in_source(src) THEN 0..Len(walk_kept(src)) ELSE {0}

\* pack.rs:87-98: a single file is the list; a directory walk lists every
\* file under the source it could read. Index 0 is the created archive,
\* listed after `at` of the source files.
collect_files(src, at) ==
    IF src.kind = "file" THEN <<1>>
    ELSE IF archive_in_source(src)
         THEN SubSeq(walk_kept(src), 1, at) \o <<0>>
                  \o SubSeq(walk_kept(src), at + 1, Len(walk_kept(src)))
         ELSE walk_kept(src)

\* the path of an enumerated file
walked_path(src, k) == IF k = 0 THEN created_archive(src) ELSE EntryPath(src, k)

\* pack.rs:104-113 the name stored for an enumerated file
relative_name(src, k) ==
    IF src.kind = "file" THEN file_name(walked_path(src, k))
    ELSE as_os_str(strip_prefix(walked_path(src, k), SourcePath(src)))

\* pack.rs:114 path.metadata()?.len(): the created archive is empty on disk,
\* its header still waits in the BufWriter
metadata_len(src, k) == IF k = 0 THEN 0 ELSE Len(src.entries[k].data)

\* pack.rs:100-121
inner_files(src, paths) ==
    [j \in 1..Len(paths) |->
        [name |-> relative_name(src, paths[j]),
         original_size |-> metadata_len(src, paths[j]),
         position |-> 0]]

\* pack.rs:150 File::open fails
open_fails(src, k) == k # 0 /\ src.entries[k].fault = "open"

\* pack.rs:181-191 the bytes the reader yields: those of the source file; of
\* the created archive what the BufWriter has flushed of the bytes written
\* so far, nothing or all of them
read_bytes(src, k, written) ==
    IF k = 0 THEN {<<>>, written} ELSE {src.entries[k].data}

\* main.rs:117-125 InnerFile::write_metadata: the bytes of a metadata block
\* with zeroed size and checksum fields
metadata_bytes(inner) ==
    to_le_bytes(Len(inner.name), 4) \o inner.name
        \o to_le_bytes(inner.original_size, 8)
        \o to_le_bytes(0, 8) \o to_le_bytes(0, 8)

\* main.rs:121 the position write_metadata returns: that of the size field
\* of a block written at `start`
patch_position(inner, start) == start + 4 + Len(inner.name) + 8

\* InnerFile.position, read by write_index_array: where the block starts
entry_position(inner, start) == start

\* pack.rs:35-38
header_bytes(count) ==
    SIGNATURE \o VERSION \o to_le_bytes(count, 4) \o to_le_bytes(0, 8)

\* pack.rs:25-40
PackBegin ==
    /\ pc = "start"
    /\ IF source.kind = "missing"
       THEN /\ packResult' = "Path"
            /\ pc' = "done"
            /\ UNCHANGED <<archive, packVars>>
       ELSE /\ \E at \in WalkPlaces(source) : files' = collect_files(source, at)
            /\ archive' = header_bytes(Len(files'))
            /\ inners' = inner_files(source, files')
            /\ pc' = "pack_files"
            /\ UNCHANGED <<packResult, temp_offsets, compressed_sizes, checksums,
                           raw_read, short_writes>>
    /\ UNCHANGED <<source, origin, tamper_pos, unpackVars>>

\* main.rs:65-73 HasherWriter::new: the sink, the checksum, the byte count
HasherWriter_new == [writer |-> <<>>, hasher |-> 0, written_bytes |-> 0]

\* the byte counter take_written_bytes returns: it grows by the bytes the
\* sink accepted
count_written(count, accepted) == count + accepted

\* main.rs:79-83 HasherWriter::write of buf to a sink that accepts the first
\* n bytes: the hasher is updated with all of buf, then the sink is written
HasherWriter_write(hw, buf, n) ==
    [writer        |-> hw.writer \o SubSeq(buf, 1, n),
     hasher        |-> CrcUpdate(hw.hasher, buf),
     written_bytes |-> count_written(hw.written_bytes, n)]

\* pack.rs:190-193 the encoder hands its output to the HasherWriter and
\* offers the rest again when a write took only the first n bytes
write_all(hw, buf, n) ==
    IF n >= Len(buf) THEN HasherWriter_write(hw, buf, Len(buf))
    ELSE LET rest == SubSeq(buf, n + 1, Len(buf))
         IN  HasherWriter_write(HasherWriter_write(hw, buf, n), rest, Len(rest))

\* BufWriter<File>::write of a buffer of n bytes: the number of bytes taken
AcceptCount(src, n) ==
    IF src.sink = "short" /\ MaxShort < n THEN MaxShort ELSE n

\* pack.rs:132-144 with 149-194: one turn of the loop of process_files
PackFile ==
    /\ pc = "pack_files"
    /\ Len(temp_offsets) < Len(files)
    /\ LET i     == Len(temp_offsets) + 1
           start == Len(archive)
           meta  == metadata_bytes(inners[i])
       IN  /\ inners' = [inners EXCEPT
                            ![i].position = entry_position(inners[i], start)]
           /\ IF open_fails(source, files[i])
              THEN /\ archive' = archive \o meta
                   /\ packResult' = "Io"
                   /\ pc' = "done"
                   /\ UNCHANGED <<temp_offsets, compressed_sizes, checksums,
                                  raw_read, short_writes>>
              ELSE \E data \in read_bytes(source, files[i], archive \o meta) :
                   LET payload == GzEncode(data) IN
                   LET n  == AcceptCount(source, Len(payload))
                       hw == write_all(HasherWriter_new, payload, n) IN
                   /\ archive' = archive \o meta \o hw.writer
                   /\ temp_offsets' =
                          Append(temp_offsets, patch_position(inners[i], start))
                   /\ compressed_sizes' =
                          Append(compressed_sizes, hw.written_bytes)
                   /\ checksums' =
                          Append(checksums, <<CrcOf(data), hw.hasher>>)
                   /\ raw_read' = Append(raw_read, data)
                   /\ short_writes' =
                          IF n < Len(payload) THEN short_writes + 1
                          ELSE short_writes
                   /\ UNCHANGED <<packResult, pc>>
    /\ UNCHANGED <<source, files, origin, tamper_pos, unpackVars>>

\* pack.rs:196-217 the bytes rewrite_temp_fields leaves in the file
RECURSIVE patch_entries(_, _, _, _, _)
patch_entries(f, offs, sizes, sums, i) ==
    IF i > Len(offs) THEN f
    ELSE patch_entries(
             WriteAt(f, offs[i],
                     to_le_bytes(sizes[i], 8) \o to_le_bytes(sums[i][1], 4)
                         \o to_le_bytes(sums[i][2], 4)),
             offs, sizes, sums, i + 1)

\* the backpatch with the write of the index offset left out
rewrite_temp_fields_no_offset(f, offs, sizes, sums) ==
    patch_entries(f, offs, sizes, sums, 1)

rewrite_temp_fields(f, offs, sizes, sums) ==
    LET end == Len(f)
    IN  patch_entries(WriteAt(f, 10, to_le_bytes(end, 8)), offs, sizes, sums, 1)

\* pack.rs:219-226
RECURSIVE index_array(_)
index_array(ins) ==
    IF ins = <<>> THEN <<>>
    ELSE to_le_bytes(Head(ins).position, 8) \o index_array(Tail(ins))

\* pack.rs:45-52
PackFinish ==
    /\ pc = "pack_files"
    /\ Len(temp_offsets) = Len(files)
    /\ archive' = rewrite_temp_fields(archive, temp_offsets, compressed_sizes,
                                      checksums) \o index_array(inners)
    /\ packResult' = "Ok"
    /\ pc' = "packed"
    /\ UNCHANGED <<source, packVars, origin, tamper_pos, unpackVars>>

\* ------------------------------------------------- archives of other origin
\* one byte of a packed archive is replaced: by zero or by its successor
TamperVals(b) == {0, (b + 1) % 256} \ {b}

Tamper ==
    /\ pc = "packed"
    /\ origin = "pack"
    /\ FaultCount(source.entries) = 0
    /\ short_writes = 0
    /\ ~archive_in_source(source)
    /\ \E pos \in 1..Len(archive) : \E v \in TamperVals(archive[pos]) :
          /\ archive' = [archive EXCEPT ![pos] = v]
          /\ tamper_pos' = pos
    /\ origin' = "tampered"
    /\ UNCHANGED <<pc, source, packVars, packResult, unpackVars>>

\* an archive written by somebody else in the layout of pack, with names a
\* directory walk never yields: `../x`, `/x`, `a/../../x`
NameUpX == <<DOT, DOT, SEP, 120>>
NameRootX == <<SEP, 120>>
NameDownUpX == <<97, SEP, DOT, DOT, SEP, DOT, DOT, SEP, 120>>
ForgeNames == {NameA, NameUpX, NameRootX, NameDownUpX}

forged_entry(name, data) ==
    LET payload == GzEncode(data)
    IN  to_le_bytes(Len(name), 4) \o name \o to_le_bytes(Len(data), 8)
          \o to_le_bytes(Len(payload), 8) \o to_le_bytes(CrcOf(data), 4)
          \o to_le_bytes(CrcOf(payload), 4) \o payload

RECURSIVE forged_body(_)
forged_body(ns) ==
    IF ns = <<>> THEN <<>>
    ELSE forged_entry(Head(ns), Content(1)) \o forged_body(Tail(ns))

forged_archive(ns) ==
    LET body == forged_body(ns)
    IN  SIGNATURE \o VERSION \o to_le_bytes(Len(ns), 4)
          \o to_le_bytes(18 + Len(body), 8) \o body

ForgedNameLists ==
    {<<n>> : n \in ForgeNames} \cup {<<n, NameA>> : n \in ForgeNames \ {NameA}}

Forge ==
    /\ pc = "start"
    /\ source.kind = "missing"
    /\ \E ns \in ForgedNameLists : archive' = forged_archive(ns)
    /\ origin' = "forged"
    /\ pc' = "packed"
    /\ UNCHANGED <<source, packVars, packResult, tamper_pos, unpackVars>>

\* ----------------------------------------------------------------- unpack
\* the archive path handed to unpack, and its target directory
ArchivePath ==
    IF origin = "forged"
    THEN AbsPath(<<PACKDIR[1], SRCNAME \o <<DOT>> \o SLF>>)
    ELSE created_archive(source)

UnpackTarget == AbsPath(DEST)

\* directories that exist before unpack runs
ExistingDirs == {<<>>, CWD, PACKDIR, DEST}

Prefixes(cs) == {SubSeq(cs, 1, k) : k \in 0..Len(cs)}

\* create_dir_all(p): fails when a file is in the way, else makes the
\* missing directories of the resolved path
DirAllFails(p, dk) == \E q \in Prefixes(Resolve(p)) : q \in DOMAIN dk
DirAllMakes(p) == Prefixes(Resolve(p)) \ ExistingDirs

\* File::create(p): fails on a directory or when the parent is missing
CreateFails(p, dk, ds) ==
    LET t == Resolve(p)
    IN  \/ t \in ds \cup ExistingDirs
        \/ SubSeq(t, 1, Len(t) - 1) \notin ds \cup ExistingDirs

Put(dk, path, data) ==
    [q \in DOMAIN dk \cup {path} |-> IF q = path THEN data ELSE dk[q]]

\* unpack.rs:128-148
get_extraction_path_ok(src, target) ==
    HasFileName(normalize_path(src)) /\ extension(normalize_path(src)) = SLF

\* the validation with the comparison of the signature left out
validate_archive_no_signature(f) ==
    IF Len(f) < 6 THEN [err |-> "Io", pos |-> Len(f)]
    ELSE IF f[5] # VERSION[1] THEN [err |-> "Path", pos |-> 6]
    ELSE [err |-> "none", pos |-> 6]

\* unpack.rs:54-71: the error kind, and the reader position reached
validate_archive(f) ==
    IF Len(f) < 4 THEN [err |-> "Io", pos |-> Len(f)]
    ELSE IF Slice(f, 0, 4) # SIGNATURE THEN [err |-> "Path", pos |-> 4]
    ELSE IF Len(f) < 6 THEN [err |-> "Io", pos |-> Len(f)]
    ELSE IF f[5] # VERSION[1] THEN [err |-> "Path", pos |-> 6]
    ELSE [err |-> "none", pos |-> 6]

\* unpack.rs:35-43
extraction_dir(count, extraction_path, src) ==
    IF count > 1
    THEN Join(extraction_path, [abs |-> FALSE, comps |-> <<file_stem(src)>>])
    ELSE extraction_path

\* unpack.rs:22-49 up to the call of unpack_files
UnpackBegin ==
    /\ pc = "packed"
    /\ UNCHANGED <<source, archive, packVars, packResult, origin, tamper_pos,
                   done_count, inner_file, out_path, remaining_bytes, fed,
                   compressed_checksum, disk>>
    /\ LET v == validate_archive(archive)
           count == from_le_bytes(Slice(archive, 6, 4))
           dp == extraction_dir(count, normalize_path(UnpackTarget), ArchivePath)
       IN  IF ~get_extraction_path_ok(ArchivePath, UnpackTarget)
           THEN /\ unpackResult' = "Path"
                /\ pc' = "done"
                /\ UNCHANGED <<rpos, file_count, dir_path, dirs>>
           ELSE IF v.err # "none"
           THEN /\ unpackResult' = v.err
                /\ rpos' = v.pos
                /\ pc' = "done"
                /\ UNCHANGED <<file_count, dir_path, dirs>>
           ELSE IF Len(archive) < 18
           THEN /\ unpackResult' = "Io"
                /\ rpos' = Len(archive)
                /\ file_count' = IF Len(archive) >= 10 THEN count ELSE 0
                /\ pc' = "done"
                /\ UNCHANGED <<dir_path, dirs>>
           ELSE /\ rpos' = 18
                /\ file_count' = count
                /\ dir_path' = dp
                /\ IF HasParent(dp) /\ DirAllFails(Parent(dp), disk)
                   THEN /\ unpackResult' = "Io"
                        /\ pc' = "done"
                        /\ dirs' = dirs
                   ELSE /\ dirs' = IF HasParent(dp)
                                   THEN dirs \cup DirAllMakes(Parent(dp))
                                   ELSE dirs
                        /\ pc' = "unpack_files"
                        /\ unpackResult' = unpackResult

\* InnerFile::from_archive: the metadata block at pos, or the error kind
from_archive(f, pos) ==
    LET lenBytes == Slice(f, pos, 4)
        name_len == from_le_bytes(lenBytes)
        rest     == Slice(f, pos + 4 + name_len, 24)
    IN  IF Len(lenBytes) < 4 THEN [err |-> "Io", next |-> Len(f)]
        ELSE IF name_len = 0 THEN [err |-> "EmptyFilename", next |-> pos + 4]
        ELSE IF name_len > BUFFER_SIZE
             THEN [err |-> "BufferOverflow", next |-> pos + 4]
        ELSE IF Len(Slice(f, pos + 4, name_len)) < name_len \/ Len(rest) < 24
             THEN [err |-> "Io", next |-> Len(f)]
        ELSE [err |-> "none",
              next |-> pos + 4 + name_len + 24,
              inner |-> [name |-> Slice(f, pos + 4, name_len),
                         original_size |-> from_le_bytes(SubSeq(rest, 1, 8)),
                         compressed_size |-> from_le_bytes(SubSeq(rest, 9, 16)),
                         original_checksum |-> from_le_bytes(SubSeq(rest, 17, 20)),
                         compressed_checksum |-> from_le_bytes(SubSeq(rest, 21, 24))]]

\* unpack.rs:82-88
entry_file_path(count, dp, name) ==
    normalize_path(IF count > 1 THEN Join(dp, PathFrom(name)) ELSE PathFrom(name))

\* unpack.rs:79-98 and 156-160: decode the next entry and open its file
UnpackEntry ==
    /\ pc = "unpack_files"
    /\ done_count < file_count
    /\ UNCHANGED <<source, archive, packVars, packResult, origin, tamper_pos,
                   file_count, dir_path, done_count>>
    /\ LET m  == from_archive(archive, rpos)
           fp == entry_file_path(file_count, dir_path, m.inner.name)
       IN  /\ rpos' = m.next
           /\ IF m.err # "none"
              THEN /\ unpackResult' = m.err
                   /\ pc' = "done"
                   /\ UNCHANGED <<inner_file, out_path, remaining_bytes, fed,
                                  compressed_checksum, disk, dirs>>
              ELSE /\ inner_file' = m.inner
                   /\ IF HasParent(fp) /\ DirAllFails(Parent(fp), disk)
                      THEN /\ unpackResult' = "Io"
                           /\ pc' = "done"
                           /\ UNCHANGED <<out_path, remaining_bytes, fed,
                                          compressed_checksum, disk, dirs>>
                      ELSE /\ dirs' = IF HasParent(fp)
                                      THEN dirs \cup DirAllMakes(Parent(fp))
                                      ELSE dirs
                           /\ IF CreateFails(fp, disk, dirs')
                              THEN /\ unpackResult' = "Io"
                                   /\ pc' = "done"
                                   /\ UNCHANGED <<out_path, remaining_bytes, fed,
                                                  compressed_checksum, disk>>
                              ELSE /\ out_path' = Resolve(fp)
                                   /\ disk' = Put(disk, Resolve(fp), <<>>)
                                   /\ remaining_bytes' = m.inner.compressed_size
                                   /\ fed' = <<>>
                                   /\ compressed_checksum' = 0
                                   /\ pc' = "unpack_read"
                                   /\ unpackResult' = unpackResult

Min(a, b) == IF a < b THEN a ELSE b

\* the comparisons with the check of the compressed checksum left out
verify_no_compressed(inner, written, ccrc) ==
    IF CrcOf(written) # inner.original_checksum THEN "CorruptedArchive"
    ELSE IF inner.original_size # Len(written) THEN "CorruptedArchive"
    ELSE "none"

\* unpack.rs:103-123: the comparison that fails, if any
verify(inner, written, ccrc) ==
    IF CrcOf(written) # inner.original_checksum THEN "CorruptedArchive"
    ELSE IF ccrc # inner.compressed_checksum THEN "CorruptedArchive"
    ELSE IF inner.original_size # Len(written) THEN "CorruptedArchive"
    ELSE "none"

\* an error is recorded and the loop goes on with the next entry
finish_entry_continue(err, done) ==
    [pc |-> "unpack_files", result |-> err, done |-> done + 1]

\* unpack.rs:100-124: an error of the entry returns from unpack, otherwise
\* the loop goes on with the next entry
finish_entry(err, done) ==
    IF err # "none"
    THEN [pc |-> "done", result |-> err, done |-> done]
    ELSE [pc |-> "unpack_files", result |-> "none", done |-> done + 1]

\* the request with the byte budget left out
to_read_unbounded(remaining) == BUFFER_SIZE

\* unpack.rs:163 the number of bytes the loop asks the reader for
to_read(remaining) == Min(remaining, BUFFER_SIZE)

\* unpack.rs:165 Read::read returns at least one of the bytes available to a
\* request and at most all of them; reads that return fewer are explored on
\* the archives nobody tampered with
ReadCounts(avail) == IF origin = "tampered" THEN {avail} ELSE 1..avail

\* unpack.rs:162-178: one turn of the streaming loop; on the read that
\* returns nothing, unpack.rs:180-184 and 103-123
UnpackRead ==
    /\ pc = "unpack_read"
    /\ UNCHANGED <<source, archive, packVars, packResult, origin, tamper_pos,
                   file_count, dir_path, inner_file, out_path, dirs>>
    /\ LET avail == Slice(archive, rpos, to_read(remaining_bytes))
           err   == IF GzFinishFails(fed) THEN "Io"
                    ELSE verify(inner_file, disk[out_path], compressed_checksum)
           fin   == finish_entry(err, done_count)
       IN  IF avail = <<>>
           THEN /\ UNCHANGED <<rpos, remaining_bytes, fed, compressed_checksum,
                               disk>>
                /\ unpackResult' = fin.result
                /\ pc' = fin.pc
                /\ done_count' = fin.done
           ELSE \E bytes \in ReadCounts(Len(avail)) :
                LET chunk == SubSeq(avail, 1, bytes) IN
                /\ rpos' = rpos + Len(chunk)
                /\ compressed_checksum' = CrcUpdate(compressed_checksum, chunk)
                /\ fed' = fed \o chunk
                /\ disk' = [disk EXCEPT ![out_path] = GzEmitted(fed')]
                /\ done_count' = done_count
                /\ IF GzWriteFails(fed')
                   THEN /\ unpackResult' = "Io"
                        /\ pc' = "done"
                        /\ remaining_bytes' = remaining_bytes
                   ELSE /\ remaining_bytes' = remaining_bytes - Len(chunk)
                        /\ UNCHANGED <<pc, unpackResult>>

\* unpack.rs:125 and 51
UnpackEnd ==
    /\ pc = "unpack_files"
    /\ done_count = file_count
    /\ unpackResult' = "Ok"
    /\ pc' = "done"
    /\ UNCHANGED <<source, archive, packVars, packResult, origin, tamper_pos,
                   rpos, file_count, dir_path, done_count, inner_file, out_path,
                   remaining_bytes, fed, compressed_checksum, disk, dirs>>

Next ==
    \/ PackBegin
    \/ PackFile
    \/ PackFinish
    \/ Tamper
    \/ Forge
    \/ UnpackBegin
    \/ UnpackEntry
    \/ UnpackRead
    \/ UnpackEnd

Spec == Init /\ [][Next]_vars

\* ----------------------------------------------------------------- claims
Failed(r) == r \notin {"none", "Ok"}

IsUnder(root, q) == Len(root) <= Len(q) /\ SubSeq(q, 1, Len(root)) = root

\* the extraction root the format prescribes for an archive of n entries
\* unpacked into UnpackTarget
ExtractionRoot(n) ==
    IF n > 1 THEN Append(DEST, file_stem(ArchivePath)) ELSE DEST

\* where the file stored under `name` belongs
ExpectedPath(n, name) ==
    ResolveComps(ExtractionRoot(n), PathFrom(name).comps)

\* C1 (round trip): after pack has succeeded on source files that could all
\* be read and whose names fit the buffer, and unpack of its archive has
\* ended, unpack has returned success and every source file is found under
\* the destination at its relative name with its bytes.
C1_RoundTrip ==
    (pc = "done" /\ origin = "pack" /\ packResult = "Ok"
        /\ FaultCount(source.entries) = 0
        /\ \A k \in DOMAIN source.entries :
              Len(source.entries[k].name) <= BUFFER_SIZE) =>
        /\ unpackResult = "Ok"
        /\ \A k \in 1..Len(source.entries) :
              LET q == ExpectedPath(Len(source.entries),
                                    relative_name(source, k))
              IN  q \in DOMAIN disk /\ disk[q] = source.entries[k].data

\* C2 (traversal safety), on archives of several entries, whose extraction
\* root is <destination>/<stem>: whatever the stored names, every file and
\* directory unpack has created lies inside the extraction root.
C2_TraversalSafety ==
    file_count > 1 =>
        \A q \in DOMAIN disk \cup dirs : IsUnder(ExtractionRoot(file_count), q)

\* the archive on disk is a packed archive every name of which fits the
\* buffer, with one byte replaced
TamperedValid ==
    /\ origin = "tampered"
    /\ \A i \in DOMAIN inners : Len(inners[i].name) <= BUFFER_SIZE

\* the replaced byte (one-based index) lies in the compressed payload of an
\* entry
InPayload(pos) ==
    \E i \in DOMAIN temp_offsets :
        /\ pos > temp_offsets[i] + 16
        /\ pos <= temp_offsets[i] + 16 + compressed_sizes[i]

\* the replaced byte lies in a stored original size, original checksum or
\* compressed checksum
InStoredCheck(pos) ==
    \E i \in DOMAIN temp_offsets :
        \/ pos > temp_offsets[i] - 8 /\ pos <= temp_offsets[i]
        \/ pos > temp_offsets[i] + 8 /\ pos <= temp_offsets[i] + 16

\* C3 as stated: a changed payload byte, or a stored size or checksum that
\* differs, always ends unpack with CorruptedArchive.
C3_AlwaysCorruptedArchive ==
    (pc = "done" /\ TamperedValid
        /\ (InPayload(tamper_pos) \/ InStoredCheck(tamper_pos))) =>
        unpackResult = "CorruptedArchive"

\* C3 (corruption detection), amended: a changed payload byte ends unpack
\* with an error, CorruptedArchive or the Io error of the decoder, never with
\* success; a stored size or checksum that differs from the value computed
\* from an intact payload ends it with CorruptedArchive.
C3_CorruptionDetected ==
    (pc = "done" /\ TamperedValid) =>
        /\ InPayload(tamper_pos) => unpackResult \in {"CorruptedArchive", "Io"}
        /\ InStoredCheck(tamper_pos) => unpackResult = "CorruptedArchive"

C3_Witness ==
    /\ pc = "done"
    /\ TamperedValid
    /\ InPayload(tamper_pos)
    /\ unpackResult = "CorruptedArchive"
    /\ done_count = 1

\* C4 (abort on first failure): the step that records an error ends unpack;
\* after it the reader does not move and no file or directory is created or
\* changed; and no step ever removes a file already written.
C4_AbortOnFirstFailure ==
    [][/\ Failed(unpackResult') => pc' = "done"
       /\ Failed(unpackResult) =>
             rpos' = rpos /\ disk' = disk /\ dirs' = dirs
                 /\ unpackResult' = unpackResult
       /\ \A q \in DOMAIN disk : q \in DOMAIN disk']_vars

\* an error in the first of two entries: its file is on disk, the second
\* entry was never decoded
C4_Witness ==
    /\ Failed(unpackResult)
    /\ file_count = 2
    /\ done_count = 0
    /\ Cardinality(DOMAIN disk) = 1
    /\ rpos < temp_offsets[2] - 8

\* the first four bytes of the archive are not the signature
BadSignature == Len(archive) >= 4 /\ Slice(archive, 0, 4) # SIGNATURE

\* C5 (header rejection): with a wrong signature unpack reads nothing past
\* the first four bytes, creates no file and no directory, and ends with an
\* error.
C5_HeaderRejection ==
    BadSignature =>
        /\ rpos <= 4
        /\ file_count = 0
        /\ disk = <<>>
        /\ dirs = {}
        /\ pc = "done" => Failed(unpackResult)

C5_Witness == BadSignature /\ pc = "done" /\ rpos = 4 /\ unpackResult = "Path"

\* C6 (version gate): a matching signature with a different major version
\* ends unpack with UnsupportedVersion.
C6_VersionGate ==
    (pc = "done" /\ origin = "tampered" /\ ~BadSignature
        /\ archive[5] # VERSION[1]) =>
        unpackResult = "UnsupportedVersion" /\ rpos = 6

\* the start of each of the n entries of archive f, parsed from position pos
RECURSIVE EntryStarts(_, _, _)
EntryStarts(f, pos, n) ==
    IF n = 0 THEN <<>>
    ELSE LET name_len == from_le_bytes(Slice(f, pos, 4))
             size     == from_le_bytes(Slice(f, pos + 4 + name_len + 8, 8))
         IN  <<pos>> \o EntryStarts(f, pos + 4 + name_len + 24 + size, n - 1)

\* the position after the last of the n entries
RECURSIVE EntriesEnd(_, _, _)
EntriesEnd(f, pos, n) ==
    IF n = 0 THEN pos
    ELSE LET name_len == from_le_bytes(Slice(f, pos, 4))
             size     == from_le_bytes(Slice(f, pos + 4 + name_len + 8, 8))
         IN  EntriesEnd(f, pos + 4 + name_len + 24 + size, n - 1)

C8_ExtractionRoot ==
    (origin = "pack" /\ pc = "unpack_read") =>
        out_path = ExpectedPath(file_count, inner_file.name)

\* C9 (name bound): pack does not succeed with a name longer than
\* BUFFER_SIZE among its files; unpack answers a declared name length above
\* BUFFER_SIZE with BufferOverflow and one of zero with EmptyFilename.
C9_NameBound ==
    /\ (origin = "pack" /\ packResult = "Ok") =>
          \A i \in DOMAIN inners : Len(inners[i].name) <= BUFFER_SIZE
    /\ pc = "unpack_read" =>
          Len(inner_file.name) >= 1 /\ Len(inner_file.name) <= BUFFER_SIZE
    /\ (pc = "done" /\ unpackResult = "BufferOverflow") =>
          from_le_bytes(Slice(archive, rpos - 4, 4)) > BUFFER_SIZE
    /\ (pc = "done" /\ unpackResult = "EmptyFilename") =>
          from_le_bytes(Slice(archive, rpos - 4, 4)) = 0

\* C10 (no swallowed errors): pack returns success only when no source file
\* failed, the enumeration included.
C10_NoSwallowedErrors ==
    packResult = "Ok" => FaultCount(source.entries) = 0

\* C11 (byte budget): a turn of the streaming loop reads at most
\* min(remaining, BUFFER_SIZE) bytes, never takes the budget below zero nor
\* feeds the decoder more than the entry's compressed size, and lowers the
\* budget whenever the loop goes on, so the loop ends; when the entry ends
\* normally exactly `compressed size` bytes were fed and, in a packed
\* archive, the reader is at the next entry's metadata or at the index array.
C11_ByteBudget ==
    [][pc = "unpack_read" =>
         /\ rpos' - rpos <= Min(remaining_bytes, BUFFER_SIZE)
         /\ remaining_bytes' >= 0
         /\ Len(fed') <= inner_file.compressed_size
         /\ pc' = "unpack_read" => remaining_bytes' < remaining_bytes
         /\ pc' = "unpack_files" =>
               /\ Len(fed') = inner_file.compressed_size
               /\ remaining_bytes' = 0
               /\ origin = "pack" =>
                     rpos' = IF done_count' < Len(inners)
                             THEN inners[done_count' + 1].position
                             ELSE from_le_bytes(Slice(archive, 10, 8))]_vars

\* the first of two entries was streamed in several reads and the reader
\* stands at the metadata of the second
C11_Witness ==
    /\ origin = "pack"
    /\ pc = "unpack_files"
    /\ file_count = 2
    /\ done_count = 1
    /\ Len(fed) > 2 * BUFFER_SIZE
    /\ rpos = inners[2].position

\* the payload of entry i as it lies in the archive
PayloadOf(i) == Slice(archive, temp_offsets[i] + 16, compressed_sizes[i])

\* C13 (Tee Writer under partial writes): after the writes of an entry, cut
\* short or not, the checksum of the HasherWriter is the checksum of the
\* bytes the archive accepted and its count is their number.
C13_TeeWriter ==
    origin = "pack" =>
        \A i \in DOMAIN checksums :
            /\ Len(PayloadOf(i)) = compressed_sizes[i]
            /\ checksums[i][2] = CrcOf(PayloadOf(i))

\* C12 (backpatch): when pack succeeds, the metadata block of every entry i
\* holds, from its patch position on, the number of payload bytes that lie
\* between this block and the next, the checksum of the raw bytes read and
\* the checksum of those payload bytes; name length, name, original size and
\* payload are the bytes written before the backpatch.
C12_Backpatch ==
    [][pc = "pack_files" /\ pc' = "packed" =>
         \A i \in DOMAIN temp_offsets :
            LET p       == temp_offsets[i]
                start   == inners[i].position
                next    == IF i < Len(temp_offsets) THEN inners[i + 1].position
                           ELSE Len(archive)
                payload == Slice(archive', p + 16, next - (p + 16))
            IN  /\ from_le_bytes(Slice(archive', p, 8)) = Len(payload)
                /\ from_le_bytes(Slice(archive', p + 8, 4)) =
                       CrcOf(raw_read[i])
                /\ from_le_bytes(Slice(archive', p + 12, 4)) = CrcOf(payload)
                /\ Slice(archive', start, p - start) =
                       Slice(archive, start, p - start)
                /\ payload = Slice(archive, p + 16, next - (p + 16))]_vars

\* C14 (pack never packs its own output): whatever the source and the
\* target, the archive file pack created is not among the enumerated files,
\* and the original size stored for every entry is the number of raw bytes
\* read and compressed for it.
C14_NoSelfPack ==
    origin = "pack" =>
        /\ \A i \in DOMAIN files :
              Resolve(walked_path(source, files[i])) #
                  Resolve(created_archive(source))
        /\ \A i \in DOMAIN raw_read : inners[i].original_size = Len(raw_read[i])

====
